---- MODULE Spec2Model ----
(***************************************************************************)
(* Model of packages/kit/src/runtime/server/endpoint.js: render_endpoint,  *)
(* the method dispatch and response normalisation of an endpoint module.   *)
(*                                                                         *)
(* JavaScript values are records tagged with `kind`.  Strings the code     *)
(* only compares or concatenates are TLA+ strings; header values the code  *)
(* inspects character by character (content-type, cache-control) are       *)
(* sequences of one-character strings.                                     *)
(***************************************************************************)
EXTENDS Integers, Sequences, FiniteSets, TLC

VARIABLES
    pc,               \* where render_endpoint is: "start", "await@82", or the line it left by
    event,            \* the RequestEvent: request method, url.pathname, and the
                      \* x-sveltekit-load request header once line 66 has read it
    mod,              \* the endpoint module: the names it exports a handler under
    options,          \* the SSROptions: get_stack, once line 120 has read it
    handler,          \* the export whose handler was invoked, "undefined" when none was
    response,         \* what the handler returned
    normalized_body,  \* the local of that name, once assigned
    returned,         \* the arguments of the Response render_endpoint returned
    thrown            \* the error render_endpoint threw

vars == <<pc, event, mod, options, handler, response, normalized_body, returned, thrown>>

(***************************************************************************)
(* Bounds of the model.                                                    *)
(***************************************************************************)
\* largest number of handlers one endpoint module exports
MaxHandlers == 2

(***************************************************************************)
(* JavaScript values.                                                      *)
(***************************************************************************)
Undefined == [kind |-> "undefined"]
Null == [kind |-> "null"]
Str(s) == [kind |-> "string", val |-> s]
Num(n) == [kind |-> "number", val |-> n]
Bool(b) == [kind |-> "boolean", val |-> b]
Func == [kind |-> "function"]
Uint8Array(bytes) == [kind |-> "Uint8Array", val |-> bytes]
ReadableStream(bytes) == [kind |-> "ReadableStream", val |-> bytes]
\* a plain object: a sequence of <<key, number>> properties, in insertion order
Pojo(props) == [kind |-> "pojo", val |-> props]
ErrorValue(message) == [kind |-> "Error", val |-> message]

\* the typeof operator
TypeOf(v) ==
    CASE v.kind \in {"undefined", "string", "number", "boolean", "function"} -> v.kind
      [] OTHER -> "object"

\* JavaScript truthiness
Truthy(v) ==
    CASE v.kind \in {"undefined", "null"} -> FALSE
      [] v.kind = "boolean" -> v.val
      [] v.kind = "number" -> v.val # 0
      [] v.kind = "string" -> Len(v.val) > 0
      [] OTHER -> TRUE

(***************************************************************************)
(* Character-level string operations used by is_text and the etag guard.   *)
(***************************************************************************)
UpperCase == <<"A", "B", "C", "D", "E", "F", "G", "H", "I", "J", "K", "L", "M",
               "N", "O", "P", "Q", "R", "S", "T", "U", "V", "W", "X", "Y", "Z">>
LowerCase == <<"a", "b", "c", "d", "e", "f", "g", "h", "i", "j", "k", "l", "m",
               "n", "o", "p", "q", "r", "s", "t", "u", "v", "w", "x", "y", "z">>

toLowerCase(s) ==
    [i \in 1..Len(s) |->
        IF \E k \in 1..Len(UpperCase) : UpperCase[k] = s[i]
        THEN LowerCase[CHOOSE k \in 1..Len(UpperCase) : UpperCase[k] = s[i]]
        ELSE s[i]]

startsWith(s, prefix) ==
    Len(s) >= Len(prefix) /\ SubSeq(s, 1, Len(prefix)) = prefix

endsWith(s, suffix) ==
    Len(s) >= Len(suffix) /\ SubSeq(s, Len(s) - Len(suffix) + 1, Len(s)) = suffix

\* RegExp.prototype.test for a literal pattern: the pattern occurs somewhere in s
includes(s, pattern) ==
    \E i \in 1..(Len(s) - Len(pattern) + 1) : SubSeq(s, i, i + Len(pattern) - 1) = pattern

\* s.split(sep)[0]: the part of s before the first occurrence of the character sep
splitFirst(s, sep) ==
    IF \E i \in 1..Len(s) : s[i] = sep
    THEN SubSeq(s, 1, (CHOOSE i \in 1..Len(s) : s[i] = sep /\ \A j \in 1..(i - 1) : s[j] # sep) - 1)
    ELSE s

RECURSIVE join(_, _)
\* Array.prototype.join over an array of strings
join(arr, sep) ==
    IF Len(arr) = 0 THEN ""
    ELSE IF Len(arr) = 1 THEN arr[1]
    ELSE arr[1] \o sep \o join(Tail(arr), sep)

(***************************************************************************)
(* Header values of the model, spelled out as characters.                  *)
(***************************************************************************)
ct_text_plain == <<"t", "e", "x", "t", "/", "p", "l", "a", "i", "n">>
ct_json == <<"a", "p", "p", "l", "i", "c", "a", "t", "i", "o", "n", "/", "j", "s", "o", "n">>
ct_json_v1 == <<"a", "p", "p", "l", "i", "c", "a", "t", "i", "o", "n", "/", "j", "s", "o", "n", ";", "v", "=", "1">>
ct_json_upper == <<"A", "p", "p", "l", "i", "c", "a", "t", "i", "o", "n", "/", "J", "S", "O", "N">>
ct_octet == <<"a", "p", "p", "l", "i", "c", "a", "t", "i", "o", "n", "/", "o", "c", "t", "e", "t", "-", "s", "t", "r", "e", "a", "m">>
ct_svg == <<"i", "m", "a", "g", "e", "/", "s", "v", "g", "+", "x", "m", "l">>
ct_form == <<"m", "u", "l", "t", "i", "p", "a", "r", "t", "/", "f", "o", "r", "m", "-", "d", "a", "t", "a">>
ct_json_utf8 == <<"a", "p", "p", "l", "i", "c", "a", "t", "i", "o", "n", "/", "j", "s", "o", "n", ";", " ", "c", "h", "a", "r", "s", "e", "t", "=", "u", "t", "f", "-", "8">>
cc_no_store == <<"n", "o", "-", "s", "t", "o", "r", "e">>
cc_immutable == <<"p", "u", "b", "l", "i", "c", ",", " ", "i", "m", "m", "u", "t", "a", "b", "l", "e">>
cc_max_age == <<"m", "a", "x", "-", "a", "g", "e", "=", "6", "0">>

(***************************************************************************)
(* endpoint.js, module level.                                              *)
(***************************************************************************)
text_types == {
    <<"a", "p", "p", "l", "i", "c", "a", "t", "i", "o", "n", "/", "x", "m", "l">>,
    ct_json,
    <<"a", "p", "p", "l", "i", "c", "a", "t", "i", "o", "n", "/", "x", "-", "w", "w", "w", "-", "f", "o", "r", "m", "-", "u", "r", "l", "e", "n", "c", "o", "d", "e", "d">>,
    ct_form }

bodyless_status_codes == {101, 204, 205, 304}

\* the header names the model follows; names are lower-cased as Headers does
HeaderNames == {"allow", "content-type", "etag", "cache-control"}

\* an empty Headers object
NoHeaders == [n \in HeaderNames |-> Null]

\* the arguments of `new Response(body, {status})` in error()
error(body) ==
    [status |-> 500, headers |-> NoHeaders, body |-> Str(body)]

is_string(s) == TypeOf(s) = "string" \/ s.kind = "String"

\* is_text without toLowerCase
is_text_CaseSensitive(content_type) ==
    IF ~Truthy(content_type) THEN TRUE
    ELSE LET type == splitFirst(content_type.val, ";")
         IN  \/ startsWith(type, <<"t", "e", "x", "t", "/">>)
             \/ endsWith(type, <<"+", "x", "m", "l">>)
             \/ type \in text_types

is_text(content_type) ==
    IF ~Truthy(content_type) THEN TRUE
    ELSE LET type == toLowerCase(splitFirst(content_type.val, ";"))
         IN  \/ startsWith(type, <<"t", "e", "x", "t", "/">>)
             \/ endsWith(type, <<"+", "x", "m", "l">>)
             \/ type \in text_types

(***************************************************************************)
(* Collaborators imported from ./utils.js, ../hash.js, ../../utils/http.js *)
(***************************************************************************)
\* a JSON-like structured value or an error value
is_pojo(body) == body.kind \in {"pojo", "Error"}

\* the error as a JSON string: {message}, with the stack when get_stack asks for it
serialize_error(err, get_stack) ==
    IF get_stack
    THEN "{\"message\":\"" \o err.val \o "\",\"stack\":\"Error: " \o err.val \o "\"}"
    ELSE "{\"message\":\"" \o err.val \o "\"}"

\* deterministic content hash of a string or of a byte sequence
hash(content) ==
    IF content.kind = "string" THEN "h(" \o content.val \o ")"
    ELSE "h(" \o ToString(content.val) \o ")"

\* a plain record of headers as a Headers object
to_headers(object) == [n \in HeaderNames |-> object[n]]

\* JSON.stringify of a plain object with number-valued properties
JSON_stringify(value) ==
    "{" \o join([i \in 1..Len(value.val) |->
                    "\"" \o value.val[i][1] \o "\":" \o ToString(value.val[i][2])], ",")
        \o "}"

(***************************************************************************)
(* The inputs of the model.                                                *)
(***************************************************************************)
\* names an endpoint module can export a handler under
ModuleExports == {"GET", "POST", "PUT", "PATCH", "DELETE", "HEAD"}

Modules == {m \in SUBSET ModuleExports : Cardinality(m) <= MaxHandlers}

RequestMethods == {"GET", "POST", "PUT", "PATCH", "DELETE", "HEAD"}

Pathnames == {"/env"}

ContentTypes == {Null, Str(ct_text_plain), Str(ct_json_v1), Str(ct_json_upper),
                 Str(ct_octet), Str(ct_svg)}

CacheControls == {Null, Str(cc_no_store), Str(cc_immutable), Str(cc_max_age)}

ETags == {Null, Str("\"supplied\"")}

Statuses == {Undefined, Num(101), Num(204), Num(205), Num(304)}

Bodies == {Undefined, Str("hi"), Uint8Array(<<104, 105>>), ReadableStream(<<104, 105>>),
           Pojo(<< <<"a", 1>> >>), ErrorValue("boom")}

HeaderRecords ==
    {[n \in HeaderNames |->
        CASE n = "content-type" -> ct
          [] n = "cache-control" -> cc
          [] n = "etag" -> et
          [] OTHER -> Null] : ct \in ContentTypes, cc \in CacheControls, et \in ETags}

\* what a handler can return
HandlerResults ==
    {Undefined, Null, Str("hi"), Num(42), Bool(TRUE), Func}
    \cup {[kind |-> "object", status |-> st, headers |-> h, body |-> b, fallthrough |-> f] :
            st \in Statuses, h \in HeaderRecords, b \in Bodies, f \in {Undefined, Bool(TRUE)}}

\* a request header or an option the code has not read yet: its value is drawn
\* when the code reads it
NotRead == [kind |-> "not read"]

Events ==
    {[method |-> m, headers |-> [n \in {"x-sveltekit-load"} |-> NotRead], pathname |-> p] :
        m \in RequestMethods, p \in Pathnames}

\* the values of the x-sveltekit-load request header: absent, or sent by the client
LoadHeaders == {Null, Str("true")}

Options == [get_stack : BOOLEAN]

(***************************************************************************)
(* render_endpoint, lines 45-80: method dispatch.                          *)
(***************************************************************************)
\* mod[name]: the export of that name, "undefined" when the module has none
Property(m, name) == IF name \in m THEN name ELSE "undefined"

\* resolve_handler without the HEAD fallback of lines 53-55
resolve_handler_NoFallback(m, method) == Property(m, method)

\* lines 50-55
resolve_handler(m, method) ==
    IF Property(m, method) = "undefined" /\ method = "HEAD"
    THEN Property(m, "GET")
    ELSE Property(m, method)

\* the names `for (const method in array)` binds: the array's indices, as strings
for_in(array) == [i \in 1..Len(array) |-> ToString(i - 1)]

\* lines 58-64
allowed_methods(m) ==
    LET present == SelectSeq(for_in(<<"GET", "POST", "PUT", "PATCH", "DELETE">>),
                             LAMBDA method : Property(m, method) # "undefined")
    IN  IF Property(m, "GET") # "undefined" \/ Property(m, "HEAD") # "undefined"
        THEN Append(present, "HEAD")
        ELSE present

\* no_handler_response with the test of line 66 dropped
no_handler_response_Always405(ev, m) ==
    [status |-> 405,
     headers |-> [NoHeaders EXCEPT !["allow"] = Str(join(allowed_methods(m), ", "))],
     body |-> Str(ev.method \o " method not allowed")]

\* lines 66-79
no_handler_response(ev, m) ==
    IF Truthy(ev.headers["x-sveltekit-load"])
    THEN [status |-> 204, headers |-> NoHeaders, body |-> Undefined]
    ELSE [status |-> 405,
          headers |-> [NoHeaders EXCEPT !["allow"] = Str(join(allowed_methods(m), ", "))],
          body |-> Str(ev.method \o " method not allowed")]

NoResponse == [status |-> 0, headers |-> NoHeaders, body |-> Undefined]

Init ==
    /\ pc = "start"
    /\ event \in Events
    /\ mod \in Modules
    /\ options = NotRead
    /\ handler = "undefined"
    /\ response = Undefined
    /\ normalized_body = Undefined
    /\ returned = NoResponse
    /\ thrown = Undefined

\* render_endpoint from its call to the first return or to the await of line 82.
\* check_method_names (line 48, ./utils.js) rejects modules that still export the old
\* lower-case names; the modules of ModuleExports export none, so it does nothing here.
Dispatch(load) ==
    /\ pc = "start"
    /\ handler' = resolve_handler(mod, event.method)
    /\ IF handler' = "undefined"
       THEN /\ event' = [event EXCEPT !.headers["x-sveltekit-load"] = load]
            /\ returned' = no_handler_response(event', mod)
            /\ pc' = "return@66"
       ELSE /\ UNCHANGED <<event, returned>>
            /\ pc' = "await@82"
    /\ UNCHANGED <<mod, options, response, normalized_body, thrown>>

(***************************************************************************)
(* render_endpoint, lines 82-141: normalisation of the handler's result.   *)
(***************************************************************************)
\* line 83
preface(ev) == "Invalid response from route " \o ev.pathname

\* line 97: destructuring defaults apply to undefined only
status_of(r) == IF r.status = Undefined THEN 200 ELSE r.status.val

body_of(r) == IF r.body = Undefined THEN Pojo(<<>>) ELSE r.body

\* lines 98-101
headers_of(r) == to_headers(r.headers)

\* lines 105-108: the body cannot be sent under this content-type
body_type_mismatch(type, body) ==
    /\ ~is_text(type)
    /\ ~(body.kind = "Uint8Array" \/ body.kind = "ReadableStream" \/ is_string(body))

\* line 117 without the test of the content-type
encodes_as_json_AnyType(type, body) == is_pojo(body)

\* line 117
encodes_as_json(type, body) ==
    is_pojo(body) /\ (~Truthy(type) \/ startsWith(type.val, ct_json))

\* encode without the headers.set of line 118
encode_KeepsContentType(headers, body, opts) ==
    IF encodes_as_json(headers["content-type"], body)
    THEN [headers |-> headers,
          normalized_body |->
              IF body.kind = "Error"
              THEN Str(serialize_error(body, opts.get_stack))
              ELSE Str(JSON_stringify(body))]
    ELSE [headers |-> headers, normalized_body |-> body]

\* lines 117-123: the headers and normalized_body after the encoding decision
encode(headers, body, opts) ==
    IF encodes_as_json(headers["content-type"], body)
    THEN [headers |-> [headers EXCEPT !["content-type"] = Str(ct_json_utf8)],
          normalized_body |->
              IF body.kind = "Error"
              THEN Str(serialize_error(body, opts.get_stack))
              ELSE Str(JSON_stringify(body))]
    ELSE [headers |-> headers, normalized_body |-> body]

\* line 120 evaluates options.get_stack
reads_get_stack(headers, body) ==
    encodes_as_json(headers["content-type"], body) /\ body.kind = "Error"

\* with_etag without `!headers.has('etag')`: an etag of the handler is overwritten
with_etag_Overwrites(headers, nb) ==
    IF TypeOf(nb) = "string" \/ nb.kind = "Uint8Array"
    THEN LET cache_control == headers["cache-control"]
         IN  IF \/ ~Truthy(cache_control)
                \/ ~(\/ includes(cache_control.val, <<"n", "o", "-", "s", "t", "o", "r", "e">>)
                     \/ includes(cache_control.val, <<"i", "m", "m", "u", "t", "a", "b", "l", "e">>))
             THEN [headers EXCEPT !["etag"] = Str("\"" \o hash(nb) \o "\"")]
             ELSE headers
    ELSE headers

\* lines 125-133
with_etag(headers, nb) ==
    IF (TypeOf(nb) = "string" \/ nb.kind = "Uint8Array") /\ headers["etag"] = Null
    THEN LET cache_control == headers["cache-control"]
         IN  IF \/ ~Truthy(cache_control)
                \/ ~(\/ includes(cache_control.val, <<"n", "o", "-", "s", "t", "o", "r", "e">>)
                     \/ includes(cache_control.val, <<"i", "m", "m", "u", "t", "a", "b", "l", "e">>))
             THEN [headers EXCEPT !["etag"] = Str("\"" \o hash(nb) \o "\"")]
             ELSE headers
    ELSE headers

\* line 136 without the test of the method
outgoing_body_IgnoresHead(method, status, nb) ==
    IF status \notin bodyless_status_codes THEN nb ELSE Undefined

\* line 136
outgoing_body(method, status, nb) ==
    IF method # "HEAD" /\ status \notin bodyless_status_codes THEN nb ELSE Undefined

\* exit_line with the body-type check moved before the fallthrough check
exit_line_ValidatesFirst(r) ==
    IF TypeOf(r) # "object" THEN "return@86"
    ELSE IF r = Null THEN "throw@91"
    ELSE IF body_type_mismatch(headers_of(r)["content-type"], body_of(r)) THEN "return@109"
    ELSE IF Truthy(r.fallthrough) THEN "throw@92"
    ELSE "return@135"

\* lines 85-112 and 135: the line render_endpoint leaves by, given the handler's result
exit_line(r) ==
    IF TypeOf(r) # "object" THEN "return@86"
    ELSE IF r = Null THEN "throw@91"    \* line 91 reads a property of null
    ELSE IF Truthy(r.fallthrough) THEN "throw@92"
    ELSE IF body_type_mismatch(headers_of(r)["content-type"], body_of(r)) THEN "return@109"
    ELSE "return@135"

\* lines 114-141: the Response of the last return
normalized_response(method, r, opts) ==
    LET enc == encode(headers_of(r), body_of(r), opts)
    IN  [status |-> status_of(r),
         headers |-> with_etag(enc.headers, enc.normalized_body),
         body |-> outgoing_body(method, status_of(r), enc.normalized_body)]

\* render_endpoint from the handler's return at line 82 to its own return or throw
HandlerReturns(r, opts) ==
    /\ pc = "await@82"
    /\ response' = r
    /\ pc' = exit_line(r)
    /\ returned' =
         CASE pc' = "return@86" ->
                error(preface(event) \o ": expected an object, got " \o TypeOf(r))
           [] pc' = "return@109" ->
                error(preface(event) \o ": body must be an instance of string, Uint8Array or ReadableStream if content-type is not a supported textual content-type")
           [] pc' = "return@135" -> normalized_response(event.method, r, opts)
           [] OTHER -> returned
    /\ thrown' =
         CASE pc' = "throw@91" ->
                [kind |-> "TypeError",
                 val |-> "Cannot read properties of null (reading 'fallthrough')"]
           [] pc' = "throw@92" ->
                ErrorValue("fallthrough is no longer supported. Use matchers instead: https://kit.svelte.dev/docs/routing#advanced-routing-matching")
           [] OTHER -> thrown
    /\ normalized_body' =
         IF pc' = "return@135"
         THEN encode(headers_of(r), body_of(r), opts).normalized_body
         ELSE normalized_body
    /\ options' =
         IF pc' = "return@135" /\ reads_get_stack(headers_of(r), body_of(r))
         THEN opts
         ELSE options
    /\ UNCHANGED <<event, mod, handler>>

\* line 82: the handler throws or rejects, and render_endpoint does not catch it
HandlerThrows ==
    /\ pc = "await@82"
    /\ thrown' = ErrorValue("thrown by the handler")
    /\ pc' = "throw@82"
    /\ UNCHANGED <<event, mod, options, handler, response, normalized_body, returned>>

Next ==
    \/ \E load \in LoadHeaders : Dispatch(load)
    \/ \E r \in HandlerResults, opts \in Options : HandlerReturns(r, opts)
    \/ HandlerThrows

Spec == Init /\ [][Next]_vars

(***************************************************************************)
(* Properties.                                                             *)
(***************************************************************************)
\* render_endpoint has returned a Response
HasReturned == pc \in {"return@66", "return@86", "return@109", "return@135"}

\* the handler was invoked and has returned
HandlerHasReturned == pc \in {"return@86", "throw@91", "throw@92", "return@109", "return@135"}

\* the module has no handler for the request's method, nor GET for a HEAD request
NoHandlerFor(m, method) == method \notin m /\ ~(method = "HEAD" /\ "GET" \in m)

\* the allow header C1 describes: the methods of the list the module has, in the
\* list's order, then HEAD if and only if the module has GET
ListedAllow(m) ==
    join(SelectSeq(<<"GET", "POST", "PUT", "PATCH", "DELETE">>, LAMBDA k : k \in m)
            \o (IF "GET" \in m THEN <<"HEAD">> ELSE <<>>),
         ", ")

\* C1: a request without the data-fetch marker whose method has no handler (and, for
\* HEAD, no GET fallback) is answered 405 with an allow header listing exactly the
\* methods among GET, POST, PUT, PATCH, DELETE the module has, in that order, plus
\* HEAD last if and only if GET is present
C1_AllowListsModuleMethods ==
    (/\ pc # "start"
     /\ NoHandlerFor(mod, event.method)
     /\ ~Truthy(event.headers["x-sveltekit-load"]))
    => /\ HasReturned
       /\ returned.status = 405
       /\ returned.headers["allow"] = Str(ListedAllow(mod))

\* C2 as stated: every returned Response, on every path, has no body when the request
\* method is HEAD or the status is 101, 204, 205 or 304
C2_EveryPathBodyless ==
    (HasReturned /\ (event.method = "HEAD" \/ returned.status \in {101, 204, 205, 304}))
    => returned.body = Undefined

\* C2 as amended: the Response of the normalisation path (line 135) and the 204 of the
\* fast path have no body when the request method is HEAD or the status is 101, 204,
\* 205 or 304; the 405 and the diagnostic 500 keep their text body, also for HEAD
C2_NormalizedBodyless ==
    /\ (/\ pc = "return@135"
        /\ (event.method = "HEAD" \/ returned.status \in {101, 204, 205, 304}))
       => returned.body = Undefined
    /\ (pc = "return@66" /\ returned.status = 204) => returned.body = Undefined
    /\ (\/ pc \in {"return@86", "return@109"}
        \/ (pc = "return@66" /\ returned.status = 405))
       => returned.body.kind = "string"

\* a HEAD request or a bodyless status met a handler whose body was not empty
C2_Witness ==
    /\ pc = "return@135"
    /\ response.body = Str("hi")
    /\ event.method # "HEAD"
    /\ returned.status = 205
    /\ returned.body = Undefined

C4_NoHandlerShortCircuits ==
    (pc # "start" /\ NoHandlerFor(mod, event.method))
    => /\ pc = "return@66"
       /\ handler = "undefined"
       /\ response = Undefined
       /\ IF event.headers["x-sveltekit-load"] = Str("true")
          THEN returned.status = 204 /\ returned.body = Undefined
          ELSE /\ returned.status = 405
               /\ returned.body = Str(event.method \o " method not allowed")

\* a POST-only module asked for GET with the marker, answered 204
C4_Witness ==
    /\ pc = "return@66"
    /\ mod = {"POST"}
    /\ event.method = "GET"
    /\ event.headers["x-sveltekit-load"] = Str("true")
    /\ returned.status = 204

\* C5: whatever the handler returns that is not object-shaped (undefined, null, a
\* string, a number, a boolean, a function) is answered with the diagnostic 500
\* "Invalid response from route <path>: expected an object, got <kind>", without a throw
C5_NonObjectGets500 ==
    (/\ HandlerHasReturned
     /\ response.kind \in {"undefined", "null", "string", "number", "boolean", "function"})
    => /\ pc = "return@86"
       /\ thrown = Undefined
       /\ returned.status = 500
       /\ returned.body = Str("Invalid response from route " \o event.pathname
                              \o ": expected an object, got " \o response.kind)

\* the content-type and the body line 97 and line 103 give the validation
TypeGiven == response.headers["content-type"]

BodyGiven == IF response.body = Undefined THEN Pojo(<<>>) ELSE response.body

\* the mime type of a content-type as C6 reads it: the part before ';', lower-cased
MimeOf(content_type) == toLowerCase(splitFirst(content_type.val, ";"))

\* non-textual as C6 spells it out
NonTextual(content_type) ==
    /\ content_type # Null
    /\ ~startsWith(MimeOf(content_type), <<"t", "e", "x", "t", "/">>)
    /\ ~endsWith(MimeOf(content_type), <<"+", "x", "m", "l">>)
    /\ MimeOf(content_type) \notin
         {<<"a", "p", "p", "l", "i", "c", "a", "t", "i", "o", "n", "/", "x", "m", "l">>,
          <<"a", "p", "p", "l", "i", "c", "a", "t", "i", "o", "n", "/", "j", "s", "o", "n">>,
          <<"a", "p", "p", "l", "i", "c", "a", "t", "i", "o", "n", "/", "x", "-", "w", "w", "w", "-", "f", "o", "r", "m", "-", "u", "r", "l", "e", "n", "c", "o", "d", "e", "d">>,
          <<"m", "u", "l", "t", "i", "p", "a", "r", "t", "/", "f", "o", "r", "m", "-", "d", "a", "t", "a">>}

\* the handler returned an object without the fallthrough signal: its body is validated
ReachedValidation == pc \in {"return@109", "return@135"}

C7_JsonEncoding ==
    pc = "return@135"
    => /\ IF /\ BodyGiven.kind \in {"pojo", "Error"}
             /\ (TypeGiven = Null \/ startsWith(TypeGiven.val, ct_json))
          THEN /\ returned.headers["content-type"] = Str(ct_json_utf8)
               /\ normalized_body =
                    IF BodyGiven.kind = "Error"
                    THEN Str(serialize_error(BodyGiven, options.get_stack))
                    ELSE Str(JSON_stringify(BodyGiven))
          ELSE /\ returned.headers["content-type"] = TypeGiven
               /\ normalized_body = BodyGiven
       /\ (response.body = Pojo(<< <<"a", 1>> >>) /\ TypeGiven = Null)
          => normalized_body = Str("{\"a\":1}")
       /\ (response.body = Undefined /\ TypeGiven = Null) => normalized_body = Str("{}")
       /\ returned.body \in {normalized_body, Undefined}
       /\ (event.method # "HEAD" /\ returned.status = 200) => returned.body = normalized_body

\* {body: {a: 1}} without content-type, sent as JSON
C7_Witness ==
    /\ pc = "return@135"
    /\ response.body = Pojo(<< <<"a", 1>> >>)
    /\ TypeGiven = Null
    /\ returned.headers["content-type"] = Str(ct_json_utf8)
    /\ returned.body = Str("{\"a\":1}")

\* the cache-control header matches /(no-store|immutable)/
NoStoreOrImmutable(cache_control) ==
    \/ includes(cache_control.val, <<"n", "o", "-", "s", "t", "o", "r", "e">>)
    \/ includes(cache_control.val, <<"i", "m", "m", "u", "t", "a", "b", "l", "e">>)

\* C8: a normalized Response gets the etag "<hash of the encoded body>" if and only if
\* the encoded body is a string or a Uint8Array, the handler gave no etag, and
\* cache-control is absent or matches neither no-store nor immutable; an etag the
\* handler gave is kept, a stream gets none, and HEAD or a bodyless status changes nothing
C8_EtagInjection ==
    pc = "return@135"
    => LET given == response.headers["etag"]
           cache_control == response.headers["cache-control"]
       IN  IF /\ normalized_body.kind \in {"string", "Uint8Array"}
              /\ given = Null
              /\ (cache_control = Null \/ ~NoStoreOrImmutable(cache_control))
           THEN /\ returned.headers["etag"].kind = "string"
                /\ returned.headers["etag"].val = "\"" \o hash(normalized_body) \o "\""
           ELSE returned.headers["etag"] = given

\* a HEAD request whose JSON body was hashed although it is not sent
C8_Witness ==
    /\ pc = "return@135"
    /\ event.method = "HEAD"
    /\ response.body = Pojo(<< <<"a", 1>> >>)
    /\ returned.body = Undefined
    /\ returned.headers["etag"] = Str("\"h({\"a\":1})\"")

\* C9: an object result with a truthy fallthrough makes render_endpoint throw the
\* "fallthrough is no longer supported" error and return nothing, whatever its status,
\* headers and body; the diagnostic 500 comes only from the non-object check and the
\* body-type check
C9_FallthroughThrows ==
    /\ (/\ HandlerHasReturned
        /\ response.kind = "object"
        /\ response.fallthrough = Bool(TRUE))
       => /\ pc = "throw@92"
          /\ thrown = ErrorValue("fallthrough is no longer supported. Use matchers instead: https://kit.svelte.dev/docs/routing#advanced-routing-matching")
          /\ returned = NoResponse
    /\ (HasReturned /\ returned.status = 500)
       => \/ pc = "return@86" /\ response.kind # "object"
          \/ /\ pc = "return@109"
             /\ NonTextual(TypeGiven)
             /\ BodyGiven.kind \notin {"string", "Uint8Array", "ReadableStream"}

\* a fallthrough result whose body would have failed the body-type check
C9_Witness ==
    /\ pc = "throw@92"
    /\ response.fallthrough = Bool(TRUE)
    /\ TypeGiven = Str(ct_octet)
    /\ response.body = Pojo(<< <<"a", 1>> >>)
    /\ returned = NoResponse

\* C10: a result normalized without a diagnostic 500 or a throw leaves with a body that
\* is a string, a Uint8Array, a ReadableStream or absent: a structured value is never
\* handed to the Response unencoded
C10_BodyIsEncoded ==
    pc = "return@135"
    => returned.body.kind \in {"string", "Uint8Array", "ReadableStream", "undefined"}

====
